---- MODULE Spec2Model ----
(***************************************************************************)
(* The GitHub pull-request webhook listener (github_webhook_listener.py): *)
(* signature verification, JSON decoding, event dispatch and the handlers *)
(* of the POST /webhook endpoint, with the two GET endpoints beside it.   *)
(*                                                                         *)
(* Python values are records [t |-> type name, v |-> sequence]:           *)
(*   None   v = <<>>                 bool   v = <<0>> or <<1>>             *)
(*   str    v = code points          bytes are plain sequences of 0..255   *)
(*   int, float   v = the code points of the JSON literal                  *)
(*   list   v = the elements         dict   v = <<key, value>> pairs in    *)
(*                                          insertion order, key a str's v *)
(* A call that can raise returns [exc |-> exception name or "", ret |-> _] *)
(*                                                                         *)
(* A result that is used more than once is handed on as an argument of    *)
(* the operator that continues the computation.                            *)
(***************************************************************************)
EXTENDS Integers, Sequences, FiniteSets, TLC

VARIABLES WEBHOOK_SECRET, frames, pc, route, payload, signature, event_type,
          verified, parsed, invoked, responses, served

vars == <<WEBHOOK_SECRET, frames, pc, route, payload, signature, event_type,
          verified, parsed, invoked, responses, served>>

\* The number of requests one run of the server is followed through.
MaxRequests == 2

None == [t |-> "None", v |-> <<>>]

PyStr(codes) == [t |-> "str", v |-> codes]

PyBool(b) == [t |-> "bool", v |-> IF b THEN <<1>> ELSE <<0>>]

Return(x) == [exc |-> "", ret |-> x]

Raise(e) == [exc |-> e, ret |-> None]

\* The least element of a non-empty set of integers.
Least(S) == CHOOSE i \in S : \A j \in S : i <= j

(***************************************************************************)
(* SHA-256 (hashlib.sha256).  A 32-bit word is a pair <<hi, lo>> of 16-bit *)
(* halves, so that every sum stays inside the integer range.               *)
(***************************************************************************)
RECURSIVE BitXor(_, _)
BitXor(a, b) ==
  IF a = 0 THEN b
  ELSE IF b = 0 THEN a
  ELSE ((a + b) % 2) + 2 * BitXor(a \div 2, b \div 2)

\* The exclusive or of two bytes, tabulated: XorByte[a + 1][b + 1].
XorByte ==
  [a \in 1..256 |-> [b \in 1..256 |-> BitXor(a - 1, b - 1)] \o <<>>] \o <<>>

Xor16(a, b) ==
  XorByte[(a \div 256) + 1][(b \div 256) + 1] * 256
  + XorByte[(a % 256) + 1][(b % 256) + 1]

\* a & b = (a + b - (a ^ b)) / 2
And16(a, b) == (a + b - Xor16(a, b)) \div 2

WXor(x, y) == <<Xor16(x[1], y[1]), Xor16(x[2], y[2])>>

WAnd(x, y) == <<And16(x[1], y[1]), And16(x[2], y[2])>>

WAdd(x, y) ==
  <<(x[1] + y[1] + ((x[2] + y[2]) \div 65536)) % 65536,
    (x[2] + y[2]) % 65536>>

\* Rotation by m < 16 bits of the halves hi, lo.
RotrHalves(hi, lo, m) ==
  IF m = 0 THEN <<hi, lo>>
  ELSE <<(hi \div 2^m) + (lo % 2^m) * 2^(16 - m),
         (lo \div 2^m) + (hi % 2^m) * 2^(16 - m)>>

Rotr(x, n) ==
  IF n >= 16 THEN RotrHalves(x[2], x[1], n - 16) ELSE RotrHalves(x[1], x[2], n)

Shr(x, n) ==
  IF n >= 16 THEN <<0, x[1] \div 2^(n - 16)>>
  ELSE <<x[1] \div 2^n, (x[2] \div 2^n) + (x[1] % 2^n) * 2^(16 - n)>>

SHA256_H0 ==
  <<
    <<27145, 58983>>, <<47975, 44677>>, <<15470, 62322>>, <<42319, 62778>>,
    <<20750, 21119>>, <<39685, 26764>>, <<8067, 55723>>, <<23520, 52505>>
  >>

SHA256_K ==
  <<
    <<17034, 12184>>, <<28983, 17553>>, <<46528, 64463>>, <<59829, 56229>>,
    <<14678, 49755>>, <<23025, 4593>>, <<37439, 33444>>, <<43804, 24277>>,
    <<55303, 43672>>, <<4739, 23297>>, <<9265, 34238>>, <<21772, 32195>>,
    <<29374, 23924>>, <<32990, 45566>>, <<39900, 1703>>, <<49563, 61812>>,
    <<58523, 27073>>, <<61374, 18310>>, <<4033, 40390>>, <<9228, 41420>>,
    <<11753, 11375>>, <<19060, 33962>>, <<23728, 43484>>, <<30457, 35034>>,
    <<38974, 20818>>, <<43057, 50797>>, <<45059, 10184>>, <<48985, 32711>>,
    <<50912, 3059>>, <<54695, 37191>>, <<1738, 25425>>, <<5161, 10599>>,
    <<10167, 2693>>, <<11803, 8504>>, <<19756, 28156>>, <<21304, 3347>>,
    <<25866, 29524>>, <<30314, 2747>>, <<33218, 51502>>, <<37490, 11397>>,
    <<41663, 59553>>, <<43034, 26187>>, <<49739, 35696>>, <<51052, 20899>>,
    <<53650, 59417>>, <<54937, 1572>>, <<62478, 13701>>, <<4202, 41072>>,
    <<6564, 49430>>, <<7735, 27656>>, <<10056, 30540>>, <<13488, 48309>>,
    <<14620, 3251>>, <<20184, 43594>>, <<23452, 51791>>, <<26670, 28659>>,
    <<29839, 33518>>, <<30885, 25455>>, <<33992, 30740>>, <<36039, 520>>,
    <<37054, 65530>>, <<42064, 27883>>, <<48889, 41975>>, <<50801, 30962>>
  >>

Ch(x, y, z) == WXor(WAnd(x, y), WAnd(<<65535 - x[1], 65535 - x[2]>>, z))

Maj(x, y, z) == WXor(WXor(WAnd(x, y), WAnd(x, z)), WAnd(y, z))

BigSigma0(x) == WXor(WXor(Rotr(x, 2), Rotr(x, 13)), Rotr(x, 22))

BigSigma1(x) == WXor(WXor(Rotr(x, 6), Rotr(x, 11)), Rotr(x, 25))

SmallSigma0(x) == WXor(WXor(Rotr(x, 7), Rotr(x, 18)), Shr(x, 3))

SmallSigma1(x) == WXor(WXor(Rotr(x, 17), Rotr(x, 19)), Shr(x, 10))

\* The padding: 0x80, zeros, and the bit length as 64 bits, big-endian.
Pad(msg) ==
  msg \o <<128>> \o [i \in 1..((119 - (Len(msg) % 64)) % 64) |-> 0]
  \o <<0, 0, 0, 0, (Len(msg) \div 2097152) % 256, (Len(msg) \div 8192) % 256,
       (Len(msg) \div 32) % 256, (Len(msg) * 8) % 256>>

BlockWords(bytes, off) ==
  [t \in 1..16 |->
     <<bytes[off + 4 * t - 3] * 256 + bytes[off + 4 * t - 2],
       bytes[off + 4 * t - 1] * 256 + bytes[off + 4 * t]>>]

\* W[t] for t = Len(W) + 1
ScheduleWord(W, t) ==
  WAdd(WAdd(SmallSigma1(W[t - 2]), W[t - 7]),
       WAdd(SmallSigma0(W[t - 15]), W[t - 16]))

RECURSIVE Schedule(_)
Schedule(W) ==
  IF Len(W) = 64 THEN W ELSE Schedule(Append(W, ScheduleWord(W, Len(W) + 1)))

\* The working variables a..h after a round with temporaries T1 and T2.
RoundState(s, T1, T2) ==
  <<WAdd(T1, T2), s[1], s[2], s[3], WAdd(s[4], T1), s[5], s[6], s[7]>>

Round(s, k, w) ==
  RoundState(s,
             WAdd(WAdd(WAdd(s[8], BigSigma1(s[5])), Ch(s[5], s[6], s[7])),
                  WAdd(k, w)),
             WAdd(BigSigma0(s[1]), Maj(s[1], s[2], s[3])))

RECURSIVE Rounds(_, _, _)
Rounds(s, W, t) ==
  IF t > 64 \/ Len(s) # 8 THEN s
  ELSE Rounds(Round(s, SHA256_K[t], W[t]), W, t + 1)

Compress(h, bytes, off) ==
  LET s == Rounds(h, Schedule(BlockWords(bytes, off) \o <<>>), 1)
  IN  [i \in 1..8 |-> WAdd(h[i], s[i])] \o <<>>

RECURSIVE Blocks(_, _, _)
Blocks(h, bytes, off) ==
  IF off >= Len(bytes) THEN h
  ELSE Blocks(Compress(h, bytes, off), bytes, off + 64)

WordBytes(w) == <<w[1] \div 256, w[1] % 256, w[2] \div 256, w[2] % 256>>

DigestBytes(h) ==
  WordBytes(h[1]) \o WordBytes(h[2]) \o WordBytes(h[3]) \o WordBytes(h[4]) \o
  WordBytes(h[5]) \o WordBytes(h[6]) \o WordBytes(h[7]) \o WordBytes(h[8])

sha256(msg) == DigestBytes(Blocks(SHA256_H0, Pad(msg), 0))

(***************************************************************************)
(* hmac.new(key, msg, hashlib.sha256).hexdigest()                          *)
(***************************************************************************)
HmacKeyBlock(key) ==
  IF Len(key) > 64 THEN sha256(key) \o [i \in 1..32 |-> 0]
  ELSE key \o [i \in 1..(64 - Len(key)) |-> 0]

XorPad(block, c) == [i \in 1..64 |-> XorByte[block[i] + 1][c + 1]] \o <<>>

HmacOfBlock(block, msg) ==
  sha256(XorPad(block, 92) \o sha256(XorPad(block, 54) \o msg))

hmac_digest(key, msg) == HmacOfBlock(HmacKeyBlock(key), msg)

\* Two digits of "0123456789abcdef" for each byte.
hexdigest(digest) ==
  [i \in 1..(2 * Len(digest)) |->
     <<48, 49, 50, 51, 52, 53, 54, 55, 56, 57, 97, 98, 99, 100, 101, 102>>[
       (IF i % 2 = 1 THEN digest[(i + 1) \div 2] \div 16
        ELSE digest[i \div 2] % 16) + 1]] \o <<>>

(***************************************************************************)
(* str.encode('utf-8') and bytes.decode('utf-8'), both strict.            *)
(***************************************************************************)
EncodeChar(c) ==
  IF c < 128 THEN <<c>>
  ELSE IF c < 2048 THEN <<192 + (c \div 64), 128 + (c % 64)>>
  ELSE IF c < 65536
    THEN <<224 + (c \div 4096), 128 + ((c \div 64) % 64), 128 + (c % 64)>>
  ELSE <<240 + (c \div 262144), 128 + ((c \div 4096) % 64),
         128 + ((c \div 64) % 64), 128 + (c % 64)>>

RECURSIVE EncodeFrom(_, _)
EncodeFrom(s, i) ==
  IF i > Len(s) THEN <<>> ELSE EncodeChar(s[i]) \o EncodeFrom(s, i + 1)

\* A surrogate (U+D800..U+DFFF) cannot be encoded.
str_encode(s) ==
  IF \E i \in 1..Len(s) : s[i] >= 55296 /\ s[i] <= 57343
    THEN Raise("UnicodeEncodeError")
  ELSE Return(EncodeFrom(s, 1))

\* The well-formed sequence led by byte b1 at i, ok2 telling whether its
\* second byte is in the range b1 allows: [n |-> its length, or 0
\* when the bytes are not well-formed UTF-8, c |-> its code point].
DecodeLed(b, i, b1, ok2) ==
  IF b1 < 128 THEN [n |-> 1, c |-> b1]
  ELSE IF b1 >= 194 /\ b1 <= 223 /\ ok2
    THEN [n |-> 2, c |-> (b1 - 192) * 64 + (b[i + 1] - 128)]
  ELSE IF b1 >= 224 /\ b1 <= 239 /\ ok2 /\ i + 2 <= Len(b)
          /\ b[i + 2] \in 128..191
    THEN [n |-> 3, c |-> (b1 - 224) * 4096 + (b[i + 1] - 128) * 64
                          + (b[i + 2] - 128)]
  ELSE IF b1 >= 240 /\ b1 <= 244 /\ ok2 /\ i + 3 <= Len(b)
          /\ b[i + 2] \in 128..191 /\ b[i + 3] \in 128..191
    THEN [n |-> 4, c |-> (b1 - 240) * 262144 + (b[i + 1] - 128) * 4096
                          + (b[i + 2] - 128) * 64 + (b[i + 3] - 128)]
  ELSE [n |-> 0, c |-> 0]

DecodeAt(b, i) ==
  DecodeLed(b, i, b[i],
            /\ i + 1 <= Len(b)
            /\ b[i + 1] >= (IF b[i] = 224 THEN 160
                            ELSE IF b[i] = 240 THEN 144 ELSE 128)
            /\ b[i + 1] <= (IF b[i] = 237 THEN 159
                            ELSE IF b[i] = 244 THEN 143 ELSE 191))

RECURSIVE DecodeFrom(_, _)

DecodeJoin(head, rest) ==
  IF rest.exc # "" THEN rest ELSE Return(head \o rest.ret)

DecodeSeq(b, i, j, d) ==
  IF d.n = 0 THEN Raise("UnicodeDecodeError")
  ELSE DecodeJoin(SubSeq(b, i, j - 1) \o <<d.c>>, DecodeFrom(b, j + d.n))

DecodeRun(b, i, high) ==
  IF high = {} THEN Return(SubSeq(b, i, Len(b)))
  ELSE DecodeSeq(b, i, Least(high), DecodeAt(b, Least(high)))

\* Decoding from byte i on: the ASCII run up to the next byte >= 128 is
\* copied, the sequence there is decoded, and the rest follows.
DecodeFrom(b, i) == DecodeRun(b, i, {j \in i..Len(b) : b[j] >= 128})

bytes_decode(b) == DecodeFrom(b, 1)

(***************************************************************************)
(* json.loads(str): the scanner and decoder of the json package.  A scan  *)
(* returns [ok, val, end, exc]: end is the index after what was read and  *)
(* exc the exception that ended a scan that is not ok.                     *)
(***************************************************************************)
ScanRaise(e) == [ok |-> FALSE, val |-> None, end |-> 0, exc |-> e]

\* A malformed value: JSONDecodeError.  A scan that finds no value at its
\* index fails with StopIteration, which raw_decode turns into
\* JSONDecodeError.
ScanFail == ScanRaise("JSONDecodeError")

Scanned(x, e) == [ok |-> TRUE, val |-> x, end |-> e, exc |-> ""]

\* sys.get_int_max_str_digits(): int() refuses a literal of more digits.
IntMaxStrDigits == 4300

\* sys.getrecursionlimit(): the frames of the interpreter and the calls
\* nested inside C code may not number more than this.
RecursionLimit == 1000

\* The entries of the recursion count that building a JSONDecodeError takes.
ErrFrames == 3

\* The entries a call of logger.info, logger.warning or logger.error takes,
\* down to the formatter of the handler that logging.basicConfig installs.
LogFrames == 11

\* The entries hmac.new(...) takes.
HmacFrames == 4

\* The outcome then of a call, followed by an operation that takes need
\* entries of the recursion count on top of the level in use: RecursionError
\* when they are not left.
Within(level, need, then) ==
  IF then.exc # "" THEN then
  ELSE IF level + need <= RecursionLimit THEN then
  ELSE Raise("RecursionError")

\* raise_errmsg of the scanner at the level depth: JSONDecodeError, pending
\* in exc, or RecursionError when the exception cannot be built.
ErrMsg(depth) ==
  IF depth + ErrFrames <= RecursionLimit THEN ScanFail
  ELSE ScanRaise("RecursionError")

\* The scan whose value is head followed by the value of the scan rest.
ScanJoin(head, rest) ==
  IF ~rest.ok THEN rest ELSE Scanned(head \o rest.val, rest.end)

CharAt(s, i) == IF i >= 1 /\ i <= Len(s) THEN s[i] ELSE -1

\* s[i : i + len(lit)] == lit
Matches(s, i, lit) ==
  i + Len(lit) - 1 <= Len(s) /\ SubSeq(s, i, i + Len(lit) - 1) = lit

\* WHITESPACE: " \t\n\r"
SkipWs(s, i) ==
  Least({j \in i..(Len(s) + 1) : CharAt(s, j) \notin {32, 9, 10, 13}})

IsDigit(c) == c >= 48 /\ c <= 57

\* The index after the digits that start at i.
DigitsEnd(s, i) == Least({j \in i..(Len(s) + 1) : ~IsDigit(CharAt(s, j))})

HexVal(c) ==
  IF c >= 48 /\ c <= 57 THEN c - 48
  ELSE IF c >= 97 /\ c <= 102 THEN c - 87
  ELSE IF c >= 65 /\ c <= 70 THEN c - 55
  ELSE -1

\* _decode_uXXXX: the value of the four hex digits at i, or -1.
HexQuad(s, i) ==
  IF \E k \in 0..3 : HexVal(CharAt(s, i + k)) < 0 THEN -1
  ELSE HexVal(s[i]) * 4096 + HexVal(s[i + 1]) * 256
       + HexVal(s[i + 2]) * 16 + HexVal(s[i + 3])

\* BACKSLASH: the character an escape letter stands for, or -1.
Backslash(c) ==
  IF c = 34 \/ c = 92 \/ c = 47 THEN c
  ELSE IF c = 98 THEN 8
  ELSE IF c = 102 THEN 12
  ELSE IF c = 110 THEN 10
  ELSE IF c = 114 THEN 13
  ELSE IF c = 116 THEN 9
  ELSE -1

RECURSIVE scanstring(_, _)

\* The string continues after the escape at j, which stands for c and ends
\* before next.
ScanEscaped(s, i, j, c, next) ==
  IF c < 0 THEN ScanFail
  ELSE ScanJoin(SubSeq(s, i, j - 1) \o <<c>>, scanstring(s, next))

\* A \uXXXX escape at j of value u1; u2 is the value of a \uXXXX that
\* follows it.  A high surrogate joins the low surrogate after it.
ScanUnicode(s, i, j, u1, u2) ==
  IF u1 >= 55296 /\ u1 <= 56319 /\ CharAt(s, j + 6) = 92 /\ CharAt(s, j + 7) = 117
    THEN IF u2 < 0 THEN ScanFail
         ELSE IF u2 >= 56320 /\ u2 <= 57343
           THEN ScanEscaped(s, i, j,
                            65536 + (u1 - 55296) * 1024 + (u2 - 56320), j + 12)
         ELSE ScanEscaped(s, i, j, u1, j + 6)
  ELSE ScanEscaped(s, i, j, u1, j + 6)

\* The scan of a string stops at j: a quote, a backslash or a control
\* character.
ScanStop(s, i, j) ==
  IF s[j] = 34 THEN Scanned(SubSeq(s, i, j - 1), j + 1)
  ELSE IF s[j] # 92 THEN ScanFail
  ELSE IF CharAt(s, j + 1) # 117
    THEN ScanEscaped(s, i, j, Backslash(CharAt(s, j + 1)), j + 2)
  ELSE ScanUnicode(s, i, j, HexQuad(s, j + 2), HexQuad(s, j + 8))

\* scanstring, strict: i is the index after the opening quote; val is the
\* string's code points.
scanstring(s, i) ==
  LET stops == {j \in i..Len(s) : s[j] = 34 \/ s[j] = 92 \/ s[j] < 32}
  IN  IF stops = {} THEN ScanFail ELSE ScanStop(s, i, Least(stops))

\* NUMBER_RE: (-?(?:0|[1-9]\d*))(\.\d+)?([eE][-+]?\d+)? matched at i.  The
\* exponent's digits start at q, after an optional sign.  A literal with a
\* fraction or an exponent is converted by float(), any other by int(),
\* which raises ValueError beyond IntMaxStrDigits digits.
NumberExp(s, i, frac, fracEnd, q) ==
  IF CharAt(s, fracEnd) \in {101, 69} /\ IsDigit(CharAt(s, q))
    THEN Scanned([t |-> "float", v |-> SubSeq(s, i, DigitsEnd(s, q + 1) - 1)],
                 DigitsEnd(s, q + 1))
  ELSE IF frac
    THEN Scanned([t |-> "float", v |-> SubSeq(s, i, fracEnd - 1)], fracEnd)
  ELSE IF Len(SelectSeq(SubSeq(s, i, fracEnd - 1), IsDigit)) > IntMaxStrDigits
    THEN ScanRaise("ValueError")
  ELSE Scanned([t |-> "int", v |-> SubSeq(s, i, fracEnd - 1)], fracEnd)

NumberFrac(s, i, frac, fracEnd) ==
  NumberExp(s, i, frac, fracEnd,
            IF CharAt(s, fracEnd + 1) \in {43, 45} THEN fracEnd + 2
            ELSE fracEnd + 1)

NumberInt(s, i, intEnd) ==
  IF CharAt(s, intEnd) = 46 /\ IsDigit(CharAt(s, intEnd + 1))
    THEN NumberFrac(s, i, TRUE, DigitsEnd(s, intEnd + 2))
  ELSE NumberFrac(s, i, FALSE, intEnd)

match_number(s, i) ==
  LET p0 == IF CharAt(s, i) = 45 THEN i + 1 ELSE i
  IN  IF ~IsDigit(CharAt(s, p0)) THEN ScanRaise("StopIteration")
      ELSE NumberInt(s, i,
                     IF CharAt(s, p0) = 48 THEN p0 + 1 ELSE DigitsEnd(s, p0))

\* The value of the last pair with the key.
LastValue(pairs, key) ==
  pairs[CHOOSE i \in 1..Len(pairs) :
          /\ pairs[i][1] = key
          /\ \A j \in (i + 1)..Len(pairs) : pairs[j][1] # key][2]

\* The dict of the pairs, first being the indices of the pairs that bring a
\* key for the first time.
DictOf(pairs, first) ==
  [t |-> "dict",
   v |-> [k \in 1..Cardinality(first) |->
            <<pairs[CHOOSE i \in first :
                      Cardinality({j \in first : j < i}) = k - 1][1],
              LastValue(pairs,
                        pairs[CHOOSE i \in first :
                                Cardinality({j \in first : j < i}) = k - 1][1])>>]
         \o <<>>]

\* dict(pairs): a key keeps the place of its first pair and the value of its
\* last one.
dict(pairs) ==
  DictOf(pairs,
         {i \in 1..Len(pairs) : \A j \in 1..(i - 1) : pairs[j][1] # pairs[i][1]})

\* depth is the number of recursion entries in use: the frames of the
\* interpreter, the call of the scanner and the containers it is inside.
RECURSIVE scan_once(_, _, _)
RECURSIVE ObjectPairs(_, _, _)
RECURSIVE ArrayItems(_, _, _)

\* After a member: a closing brace at sep ends the object, a comma brings the
\* next member.
PairSep(s, pair, sep, depth) ==
  IF CharAt(s, sep) = 125 THEN Scanned(<<pair>>, sep + 1)
  ELSE IF CharAt(s, sep) # 44 THEN ErrMsg(depth)
  ELSE ScanJoin(<<pair>>, ObjectPairs(s, SkipWs(s, sep + 1), depth))

PairValue(s, key, value, depth) ==
  IF ~value.ok THEN value
  ELSE PairSep(s, <<key, value.val>>, SkipWs(s, value.end), depth)

PairColon(s, key, colon, depth) ==
  IF CharAt(s, colon) # 58 THEN ErrMsg(depth)
  ELSE PairValue(s, key, scan_once(s, SkipWs(s, colon + 1), depth), depth)

PairKey(s, key, depth) ==
  IF ~key.ok THEN ErrMsg(depth)
  ELSE PairColon(s, key.val, SkipWs(s, key.end), depth)

\* The members of an object from the opening quote of a key at i on; val is
\* the <<key, value>> pairs and end the index after the closing brace.
ObjectPairs(s, i, depth) ==
  IF CharAt(s, i) # 34 THEN ErrMsg(depth)
  ELSE PairKey(s, scanstring(s, i + 1), depth)

ObjectOf(pairs) ==
  IF ~pairs.ok THEN pairs ELSE Scanned(dict(pairs.val), pairs.end)

ObjectAt(s, p, depth) ==
  IF CharAt(s, p) = 125 THEN Scanned(dict(<<>>), p + 1)
  ELSE ObjectOf(ObjectPairs(s, p, depth))

\* JSONObject: i is the index after the opening brace.
JSONObject(s, i, depth) == ObjectAt(s, SkipWs(s, i), depth)

\* After an element: a closing bracket at sep ends the array, a comma brings
\* the next element.
ItemSep(s, item, sep, depth) ==
  IF CharAt(s, sep) = 93 THEN Scanned(<<item>>, sep + 1)
  ELSE IF CharAt(s, sep) # 44 THEN ErrMsg(depth)
  ELSE ScanJoin(<<item>>, ArrayItems(s, SkipWs(s, sep + 1), depth))

ItemValue(s, value, depth) ==
  IF ~value.ok THEN value
  ELSE ItemSep(s, value.val, SkipWs(s, value.end), depth)

\* The elements of an array from the first character of a value at i on.
ArrayItems(s, i, depth) == ItemValue(s, scan_once(s, i, depth), depth)

ArrayOf(items) ==
  IF ~items.ok THEN items
  ELSE Scanned([t |-> "list", v |-> items.val], items.end)

ArrayAt(s, p, depth) ==
  IF CharAt(s, p) = 93 THEN Scanned([t |-> "list", v |-> <<>>], p + 1)
  ELSE ArrayOf(ArrayItems(s, p, depth))

\* JSONArray: i is the index after the opening bracket.
JSONArray(s, i, depth) == ArrayAt(s, SkipWs(s, i), depth)

StringOf(str, depth) ==
  IF ~str.ok THEN ErrMsg(depth) ELSE Scanned(PyStr(str.val), str.end)

\* A number, or else one of the constants NaN, Infinity, -Infinity, which
\* parse_constant is called for; or else no value.
NumberOr(s, i, num, depth) ==
  IF num.ok \/ num.exc = "ValueError" THEN num
  ELSE IF ~(\/ Matches(s, i, <<78, 97, 78>>)
            \/ Matches(s, i, <<73, 110, 102, 105, 110, 105, 116, 121>>)
            \/ Matches(s, i, <<45, 73, 110, 102, 105, 110, 105, 116, 121>>))
    THEN ScanRaise("StopIteration")
  ELSE IF depth + 1 > RecursionLimit THEN ScanRaise("RecursionError")
  ELSE IF Matches(s, i, <<78, 97, 78>>)
    THEN Scanned([t |-> "float", v |-> SubSeq(s, i, i + 2)], i + 3)
  ELSE IF Matches(s, i, <<73, 110, 102, 105, 110, 105, 116, 121>>)
    THEN Scanned([t |-> "float", v |-> SubSeq(s, i, i + 7)], i + 8)
  ELSE Scanned([t |-> "float", v |-> SubSeq(s, i, i + 8)], i + 9)

\* The value that starts with character c at i.  Entering an object or an
\* array takes a recursion entry; RecursionError when none is left.
ScanValue(s, i, c, depth) ==
  IF c = 34 THEN StringOf(scanstring(s, i + 1), depth)
  ELSE IF c \in {123, 91} /\ depth + 1 > RecursionLimit
    THEN ScanRaise("RecursionError")
  ELSE IF c = 123 THEN JSONObject(s, i + 1, depth + 1)
  ELSE IF c = 91 THEN JSONArray(s, i + 1, depth + 1)
  ELSE IF Matches(s, i, <<110, 117, 108, 108>>) THEN Scanned(None, i + 4)
  ELSE IF Matches(s, i, <<116, 114, 117, 101>>) THEN Scanned(PyBool(TRUE), i + 4)
  ELSE IF Matches(s, i, <<102, 97, 108, 115, 101>>)
    THEN Scanned(PyBool(FALSE), i + 5)
  ELSE NumberOr(s, i, match_number(s, i), depth)

scan_once(s, i, depth) == ScanValue(s, i, CharAt(s, i), depth)

\* decode and raw_decode for the scan obj, json.loads being called with
\* depth frames in use: raw_decode, three frames up, turns StopIteration
\* into JSONDecodeError; any other failure of the scan is raised as it is;
\* decode, two frames up, raises JSONDecodeError for text after the value.
LoadsValue(s, obj, depth) ==
  IF obj.exc = "StopIteration"
    THEN IF depth + 3 + ErrFrames <= RecursionLimit
           THEN Raise("JSONDecodeError")
         ELSE Raise("RecursionError")
  ELSE IF ~obj.ok THEN Raise(obj.exc)
  ELSE IF SkipWs(s, obj.end) # Len(s) + 1
    THEN IF depth + 2 + ErrFrames <= RecursionLimit
           THEN Raise("JSONDecodeError")
         ELSE Raise("RecursionError")
  ELSE Return(obj.val)

\* json.loads of a str, called with depth frames of the interpreter in
\* use; loads, decode, raw_decode and the call of the scanner take four
\* more.  A leading BOM raises JSONDecodeError.
json_loads(s, depth) ==
  IF depth + 4 > RecursionLimit THEN Raise("RecursionError")
  ELSE IF CharAt(s, 1) = 65279 THEN Raise("JSONDecodeError")
  ELSE LoadsValue(s, scan_once(s, SkipWs(s, 1), depth + 4), depth)

(***************************************************************************)
(* The operations the listener applies to decoded values.                  *)
(***************************************************************************)
\* The indices of key among a dict's pairs.

\* x[key] for a str key: KeyError on a dict without it, TypeError on a value
\* that is no dict.
Subscript(x, key) ==
  IF x.t # "dict" THEN Raise("TypeError")
  ELSE IF \A i \in 1..Len(x.v) : x.v[i][1] # key THEN Raise("KeyError")
  ELSE Return(x.v[Least({i \in 1..Len(x.v) : x.v[i][1] = key})][2])

\* x.get(key): only a dict has the method.
dict_get(x, key) ==
  IF x.t # "dict" THEN Raise("AttributeError")
  ELSE IF \A i \in 1..Len(x.v) : x.v[i][1] # key THEN Return(None)
  ELSE Return(x.v[Least({i \in 1..Len(x.v) : x.v[i][1] = key})][2])

\* The calls of repr() nested to write x: one for x and, for a list or a
\* dict, those of the element, key or value that needs most.
RECURSIVE ReprDepth(_)
ReprDepth(x) ==
  IF x.t = "list"
    THEN 1 + (IF x.v = <<>> THEN 0
              ELSE CHOOSE m \in {ReprDepth(x.v[i]) : i \in 1..Len(x.v)} :
                     \A i \in 1..Len(x.v) : ReprDepth(x.v[i]) <= m)
  ELSE IF x.t = "dict"
    THEN 1 + (IF x.v = <<>> THEN 0
              ELSE CHOOSE m \in {ReprDepth(x.v[i][2]) : i \in 1..Len(x.v)} :
                     \A i \in 1..Len(x.v) : ReprDepth(x.v[i][2]) <= m)
  ELSE 1

\* The entries of the recursion count an f-string takes to format x: none
\* for a str, str() for an int, and str() and the calls of repr() for any
\* other value.
FormatNeed(x) ==
  IF x.t = "str" THEN 0 ELSE IF x.t = "int" THEN 1 ELSE 1 + ReprDepth(x)

\* The digits of 5^1075: 2^-1075, half the least positive float, is
\* 0.<these digits> * 10^-323.
HalfLeastFloat ==
  <<
    50, 52, 55, 48, 51, 50, 56, 50, 50, 57, 50, 48, 54, 50, 51, 50, 55, 50,
    48, 56, 56, 50, 56, 52, 51, 57, 54, 52, 51, 52, 49, 49, 48, 54, 56, 54,
    49, 56, 50, 53, 50, 57, 57, 48, 49, 51, 48, 55, 49, 54, 50, 51, 56, 50,
    50, 49, 50, 55, 57, 50, 56, 52, 49, 50, 53, 48, 51, 51, 55, 55, 53, 51,
    54, 51, 53, 49, 48, 52, 51, 55, 53, 57, 51, 50, 54, 52, 57, 57, 49, 56,
    49, 56, 48, 56, 49, 55, 57, 57, 54, 49, 56, 57, 56, 57, 56, 50, 56, 50,
    51, 52, 55, 55, 50, 50, 56, 53, 56, 56, 54, 53, 52, 54, 51, 51, 50, 56,
    51, 53, 53, 49, 55, 55, 57, 54, 57, 56, 57, 56, 49, 57, 57, 51, 56, 55,
    51, 57, 56, 48, 48, 53, 51, 57, 48, 57, 51, 57, 48, 54, 51, 49, 53, 48,
    51, 53, 54, 53, 57, 53, 49, 53, 53, 55, 48, 50, 50, 54, 51, 57, 50, 50,
    57, 48, 56, 53, 56, 51, 57, 50, 52, 52, 57, 49, 48, 53, 49, 56, 52, 52,
    51, 53, 57, 51, 49, 56, 48, 50, 56, 52, 57, 57, 51, 54, 53, 51, 54, 49,
    53, 50, 53, 48, 48, 51, 49, 57, 51, 55, 48, 52, 53, 55, 54, 55, 56, 50,
    52, 57, 50, 49, 57, 51, 54, 53, 54, 50, 51, 54, 54, 57, 56, 54, 51, 54,
    53, 56, 52, 56, 48, 55, 53, 55, 48, 48, 49, 53, 56, 53, 55, 54, 57, 50,
    54, 57, 57, 48, 51, 55, 48, 54, 51, 49, 49, 57, 50, 56, 50, 55, 57, 53,
    53, 56, 53, 53, 49, 51, 51, 50, 57, 50, 55, 56, 51, 52, 51, 51, 56, 52,
    48, 57, 51, 53, 49, 57, 55, 56, 48, 49, 53, 53, 51, 49, 50, 52, 54, 53,
    57, 55, 50, 54, 51, 53, 55, 57, 53, 55, 52, 54, 50, 50, 55, 54, 54, 52,
    54, 53, 50, 55, 50, 56, 50, 55, 50, 50, 48, 48, 53, 54, 51, 55, 52, 48,
    48, 54, 52, 56, 53, 52, 57, 57, 57, 55, 55, 48, 57, 54, 53, 57, 57, 52,
    55, 48, 52, 53, 52, 48, 50, 48, 56, 50, 56, 49, 54, 54, 50, 50, 54, 50,
    51, 55, 56, 53, 55, 51, 57, 51, 52, 53, 48, 55, 51, 54, 51, 51, 57, 48,
    48, 55, 57, 54, 55, 55, 54, 49, 57, 51, 48, 53, 55, 55, 53, 48, 54, 55,
    52, 48, 49, 55, 54, 51, 50, 52, 54, 55, 51, 54, 48, 48, 57, 54, 56, 57,
    53, 49, 51, 52, 48, 53, 51, 53, 53, 51, 55, 52, 53, 56, 53, 49, 54, 54,
    54, 49, 49, 51, 52, 50, 50, 51, 55, 54, 54, 54, 55, 56, 54, 48, 52, 49,
    54, 50, 49, 53, 57, 54, 56, 48, 52, 54, 49, 57, 49, 52, 52, 54, 55, 50,
    57, 49, 56, 52, 48, 51, 48, 48, 53, 51, 48, 48, 53, 55, 53, 51, 48, 56,
    52, 57, 48, 52, 56, 55, 54, 53, 51, 57, 49, 55, 49, 49, 51, 56, 54, 53,
    57, 49, 54, 52, 54, 50, 51, 57, 53, 50, 52, 57, 49, 50, 54, 50, 51, 54,
    53, 51, 56, 56, 49, 56, 55, 57, 54, 51, 54, 50, 51, 57, 51, 55, 51, 50,
    56, 48, 52, 50, 51, 56, 57, 49, 48, 49, 56, 54, 55, 50, 51, 52, 56, 52,
    57, 55, 54, 54, 56, 50, 51, 53, 48, 56, 57, 56, 54, 51, 51, 56, 56, 53,
    56, 55, 57, 50, 53, 54, 50, 56, 51, 48, 50, 55, 53, 53, 57, 57, 53, 54,
    53, 55, 53, 50, 52, 52, 53, 53, 53, 48, 55, 50, 53, 53, 49, 56, 57, 51,
    49, 51, 54, 57, 48, 56, 51, 54, 50, 53, 52, 55, 55, 57, 49, 56, 54, 57,
    52, 56, 54, 54, 55, 57, 57, 52, 57, 54, 56, 51, 50, 52, 48, 52, 57, 55,
    48, 53, 56, 50, 49, 48, 50, 56, 53, 49, 51, 49, 56, 53, 52, 53, 49, 51,
    57, 54, 50, 49, 51, 56, 51, 55, 55, 50, 50, 56, 50, 54, 49, 52, 53, 52,
    51, 55, 54, 57, 51, 52, 49, 50, 53, 51, 50, 48, 57, 56, 53, 57, 49, 51,
    50, 55, 54, 54, 55, 50, 51, 54, 51, 50, 56, 49, 50, 53
  >>

\* The digits d without their leading zeros.
Significant(d) ==
  SubSeq(d, Least({i \in 1..(Len(d) + 1) : i > Len(d) \/ d[i] # 48}), Len(d))

\* The value of at most eight decimal digits.
RECURSIVE DecValue(_)
DecValue(d) ==
  IF d = <<>> THEN 0
  ELSE 10 * DecValue(SubSeq(d, 1, Len(d) - 1)) + (d[Len(d)] - 48)

\* float() rounds 0.<sig> * 10^(point + exponent) to zero: sig are the
\* significant digits of the mantissa, point the place of its decimal point
\* after them, and the exponent has the digits ex and is negative when neg.
\* The value is zero when it is at most 2^-1075 (a tie rounds to even).
RoundsToZero(sig, point, ex, neg) ==
  IF sig = <<>> THEN TRUE
  ELSE IF Len(ex) > 8 THEN neg
  ELSE IF point + (IF neg THEN 0 - DecValue(ex) ELSE DecValue(ex)) # -323
    THEN point + (IF neg THEN 0 - DecValue(ex) ELSE DecValue(ex)) < -323
  ELSE \A k \in 1..Len(sig) :
         (\A j \in 1..(k - 1) :
            sig[j] = (IF j <= 752 THEN HalfLeastFloat[j] ELSE 48))
         => sig[k] <= (IF k <= 752 THEN HalfLeastFloat[k] ELSE 48)

\* float(v) == 0.0 for the literal v of a float: e is the index of its
\* exponent letter and dot the index of its decimal point (the index after
\* the mantissa when it has none).
FloatIsZero(v, e, dot) ==
  RoundsToZero(Significant(SelectSeq(SubSeq(v, 1, e - 1), IsDigit)),
               Len(SelectSeq(SubSeq(v, 1, dot - 1), IsDigit))
               - (Len(SelectSeq(SubSeq(v, 1, e - 1), IsDigit))
                  - Len(Significant(SelectSeq(SubSeq(v, 1, e - 1), IsDigit)))),
               Significant(SelectSeq(SubSeq(v, e + 1, Len(v)), IsDigit)),
               e < Len(v) /\ v[e + 1] = 45)

\* bool(x): an int is true when it has a digit other than 0, a float when
\* it is NaN, an infinity or does not convert to 0.0.
Truthy(x) ==
  IF x.t = "None" THEN FALSE
  ELSE IF x.t = "bool" THEN x.v = <<1>>
  ELSE IF x.t = "int" THEN \E i \in 1..Len(x.v) : x.v[i] \in 49..57
  ELSE IF x.t = "float"
    THEN IF \E i \in 1..Len(x.v) : x.v[i] \in {78, 73} THEN TRUE
         ELSE ~FloatIsZero(
                x.v,
                Least({i \in 1..(Len(x.v) + 1) :
                         i > Len(x.v) \/ x.v[i] \in {101, 69}}),
                Least({i \in 1..(Len(x.v) + 1) :
                         i > Len(x.v) \/ x.v[i] \in {46, 101, 69}}))
  ELSE Len(x.v) > 0

\* x == lit for a str literal.
EqStr(x, lit) == x.t = "str" /\ x.v = lit


(***************************************************************************)
(* The string literals of the listener, as code points.                    *)
(***************************************************************************)
\* 'sha256='
S_sha256_prefix ==
  <<115, 104, 97, 50, 53, 54, 61>>

\* 'pull_request'
S_pull_request ==
  <<112, 117, 108, 108, 95, 114, 101, 113, 117, 101, 115, 116>>

\* 'ping'
S_ping ==
  <<112, 105, 110, 103>>

\* 'action'
S_action ==
  <<97, 99, 116, 105, 111, 110>>

\* 'opened'
S_opened ==
  <<111, 112, 101, 110, 101, 100>>

\* 'closed'
S_closed ==
  <<99, 108, 111, 115, 101, 100>>

\* 'merged'
S_merged ==
  <<109, 101, 114, 103, 101, 100>>

\* 'review_requested'
S_review_requested ==
  <<114, 101, 118, 105, 101, 119, 95, 114, 101, 113, 117, 101, 115, 116,
    101, 100>>

\* 'submitted'
S_submitted ==
  <<115, 117, 98, 109, 105, 116, 116, 101, 100>>

\* 'synchronize'
S_synchronize ==
  <<115, 121, 110, 99, 104, 114, 111, 110, 105, 122, 101>>

\* 'repository'
S_repository ==
  <<114, 101, 112, 111, 115, 105, 116, 111, 114, 121>>

\* 'sender'
S_sender ==
  <<115, 101, 110, 100, 101, 114>>

\* 'number'
S_number ==
  <<110, 117, 109, 98, 101, 114>>

\* 'title'
S_title ==
  <<116, 105, 116, 108, 101>>

\* 'full_name'
S_full_name ==
  <<102, 117, 108, 108, 95, 110, 97, 109, 101>>

\* 'login'
S_login ==
  <<108, 111, 103, 105, 110>>

\* 'html_url'
S_html_url ==
  <<104, 116, 109, 108, 95, 117, 114, 108>>

\* 'merge_commit_sha'
S_merge_commit_sha ==
  <<109, 101, 114, 103, 101, 95, 99, 111, 109, 109, 105, 116, 95, 115, 104,
    97>>

\* 'requested_reviewer'
S_requested_reviewer ==
  <<114, 101, 113, 117, 101, 115, 116, 101, 100, 95, 114, 101, 118, 105,
    101, 119, 101, 114>>

\* 'requested_team'
S_requested_team ==
  <<114, 101, 113, 117, 101, 115, 116, 101, 100, 95, 116, 101, 97, 109>>

\* 'name'
S_name ==
  <<110, 97, 109, 101>>

\* 'review'
S_review ==
  <<114, 101, 118, 105, 101, 119>>

\* 'state'
S_state ==
  <<115, 116, 97, 116, 101>>

\* 'body'
S_body ==
  <<98, 111, 100, 121>>

\* 'head'
S_head ==
  <<104, 101, 97, 100>>

\* 'sha'
S_sha ==
  <<115, 104, 97>>



(***************************************************************************)
(* The request bodies deliveries are drawn from, as bytes.                 *)
(***************************************************************************)
\* '{"action":"opened","pull_request":{"number":1,"title":"t","html_url":"u"},"repository":{"full_name":"r"},"sender":{"login":"l"}}'
Body_opened ==
  <<123, 34, 97, 99, 116, 105, 111, 110, 34, 58, 34, 111, 112, 101, 110,
    101, 100, 34, 44, 34, 112, 117, 108, 108, 95, 114, 101, 113, 117, 101,
    115, 116, 34, 58, 123, 34, 110, 117, 109, 98, 101, 114, 34, 58, 49, 44,
    34, 116, 105, 116, 108, 101, 34, 58, 34, 116, 34, 44, 34, 104, 116,
    109, 108, 95, 117, 114, 108, 34, 58, 34, 117, 34, 125, 44, 34, 114,
    101, 112, 111, 115, 105, 116, 111, 114, 121, 34, 58, 123, 34, 102, 117,
    108, 108, 95, 110, 97, 109, 101, 34, 58, 34, 114, 34, 125, 44, 34, 115,
    101, 110, 100, 101, 114, 34, 58, 123, 34, 108, 111, 103, 105, 110, 34,
    58, 34, 108, 34, 125, 125>>

\* '{"action":"closed","pull_request":{"number":1,"title":"t","merged":false},"repository":{"full_name":"r"},"sender":{"login":"l"}}'
Body_closed_unmerged ==
  <<123, 34, 97, 99, 116, 105, 111, 110, 34, 58, 34, 99, 108, 111, 115,
    101, 100, 34, 44, 34, 112, 117, 108, 108, 95, 114, 101, 113, 117, 101,
    115, 116, 34, 58, 123, 34, 110, 117, 109, 98, 101, 114, 34, 58, 49, 44,
    34, 116, 105, 116, 108, 101, 34, 58, 34, 116, 34, 44, 34, 109, 101,
    114, 103, 101, 100, 34, 58, 102, 97, 108, 115, 101, 125, 44, 34, 114,
    101, 112, 111, 115, 105, 116, 111, 114, 121, 34, 58, 123, 34, 102, 117,
    108, 108, 95, 110, 97, 109, 101, 34, 58, 34, 114, 34, 125, 44, 34, 115,
    101, 110, 100, 101, 114, 34, 58, 123, 34, 108, 111, 103, 105, 110, 34,
    58, 34, 108, 34, 125, 125>>

\* '{"action":"closed","pull_request":{"number":1,"title":"t","merged":true},"repository":{"full_name":"r"},"sender":{"login":"l"}}'
Body_closed_merged ==
  <<123, 34, 97, 99, 116, 105, 111, 110, 34, 58, 34, 99, 108, 111, 115,
    101, 100, 34, 44, 34, 112, 117, 108, 108, 95, 114, 101, 113, 117, 101,
    115, 116, 34, 58, 123, 34, 110, 117, 109, 98, 101, 114, 34, 58, 49, 44,
    34, 116, 105, 116, 108, 101, 34, 58, 34, 116, 34, 44, 34, 109, 101,
    114, 103, 101, 100, 34, 58, 116, 114, 117, 101, 125, 44, 34, 114, 101,
    112, 111, 115, 105, 116, 111, 114, 121, 34, 58, 123, 34, 102, 117, 108,
    108, 95, 110, 97, 109, 101, 34, 58, 34, 114, 34, 125, 44, 34, 115, 101,
    110, 100, 101, 114, 34, 58, 123, 34, 108, 111, 103, 105, 110, 34, 58,
    34, 108, 34, 125, 125>>

\* '{"action":"merged","pull_request":{"number":1,"title":"t","merge_commit_sha":"c"},"repository":{"full_name":"r"},"sender":{"login":"l"}}'
Body_merged ==
  <<123, 34, 97, 99, 116, 105, 111, 110, 34, 58, 34, 109, 101, 114, 103,
    101, 100, 34, 44, 34, 112, 117, 108, 108, 95, 114, 101, 113, 117, 101,
    115, 116, 34, 58, 123, 34, 110, 117, 109, 98, 101, 114, 34, 58, 49, 44,
    34, 116, 105, 116, 108, 101, 34, 58, 34, 116, 34, 44, 34, 109, 101,
    114, 103, 101, 95, 99, 111, 109, 109, 105, 116, 95, 115, 104, 97, 34,
    58, 34, 99, 34, 125, 44, 34, 114, 101, 112, 111, 115, 105, 116, 111,
    114, 121, 34, 58, 123, 34, 102, 117, 108, 108, 95, 110, 97, 109, 101,
    34, 58, 34, 114, 34, 125, 44, 34, 115, 101, 110, 100, 101, 114, 34, 58,
    123, 34, 108, 111, 103, 105, 110, 34, 58, 34, 108, 34, 125, 125>>

\* '{"action":"review_requested","pull_request":{"number":1,"title":"t"},"repository":{"full_name":"r"},"requested_reviewer":{"login":"v"}}'
Body_review_requested ==
  <<123, 34, 97, 99, 116, 105, 111, 110, 34, 58, 34, 114, 101, 118, 105,
    101, 119, 95, 114, 101, 113, 117, 101, 115, 116, 101, 100, 34, 44, 34,
    112, 117, 108, 108, 95, 114, 101, 113, 117, 101, 115, 116, 34, 58, 123,
    34, 110, 117, 109, 98, 101, 114, 34, 58, 49, 44, 34, 116, 105, 116,
    108, 101, 34, 58, 34, 116, 34, 125, 44, 34, 114, 101, 112, 111, 115,
    105, 116, 111, 114, 121, 34, 58, 123, 34, 102, 117, 108, 108, 95, 110,
    97, 109, 101, 34, 58, 34, 114, 34, 125, 44, 34, 114, 101, 113, 117,
    101, 115, 116, 101, 100, 95, 114, 101, 118, 105, 101, 119, 101, 114,
    34, 58, 123, 34, 108, 111, 103, 105, 110, 34, 58, 34, 118, 34, 125, 125>>

\* '{"action":"submitted","pull_request":{"number":1,"title":"t"},"repository":{"full_name":"r"},"sender":{"login":"l"},"review":{"state":"approved","body":""}}'
Body_submitted ==
  <<123, 34, 97, 99, 116, 105, 111, 110, 34, 58, 34, 115, 117, 98, 109,
    105, 116, 116, 101, 100, 34, 44, 34, 112, 117, 108, 108, 95, 114, 101,
    113, 117, 101, 115, 116, 34, 58, 123, 34, 110, 117, 109, 98, 101, 114,
    34, 58, 49, 44, 34, 116, 105, 116, 108, 101, 34, 58, 34, 116, 34, 125,
    44, 34, 114, 101, 112, 111, 115, 105, 116, 111, 114, 121, 34, 58, 123,
    34, 102, 117, 108, 108, 95, 110, 97, 109, 101, 34, 58, 34, 114, 34,
    125, 44, 34, 115, 101, 110, 100, 101, 114, 34, 58, 123, 34, 108, 111,
    103, 105, 110, 34, 58, 34, 108, 34, 125, 44, 34, 114, 101, 118, 105,
    101, 119, 34, 58, 123, 34, 115, 116, 97, 116, 101, 34, 58, 34, 97, 112,
    112, 114, 111, 118, 101, 100, 34, 44, 34, 98, 111, 100, 121, 34, 58,
    34, 34, 125, 125>>

\* '{"action":"synchronize","pull_request":{"number":1,"title":"t","head":{"sha":"h"}},"repository":{"full_name":"r"},"sender":{"login":"l"}}'
Body_synchronize ==
  <<123, 34, 97, 99, 116, 105, 111, 110, 34, 58, 34, 115, 121, 110, 99,
    104, 114, 111, 110, 105, 122, 101, 34, 44, 34, 112, 117, 108, 108, 95,
    114, 101, 113, 117, 101, 115, 116, 34, 58, 123, 34, 110, 117, 109, 98,
    101, 114, 34, 58, 49, 44, 34, 116, 105, 116, 108, 101, 34, 58, 34, 116,
    34, 44, 34, 104, 101, 97, 100, 34, 58, 123, 34, 115, 104, 97, 34, 58,
    34, 104, 34, 125, 125, 44, 34, 114, 101, 112, 111, 115, 105, 116, 111,
    114, 121, 34, 58, 123, 34, 102, 117, 108, 108, 95, 110, 97, 109, 101,
    34, 58, 34, 114, 34, 125, 44, 34, 115, 101, 110, 100, 101, 114, 34, 58,
    123, 34, 108, 111, 103, 105, 110, 34, 58, 34, 108, 34, 125, 125>>

\* '{"action":"opened"}'
Body_opened_bare ==
  <<123, 34, 97, 99, 116, 105, 111, 110, 34, 58, 34, 111, 112, 101, 110,
    101, 100, 34, 125>>

\* '{"action":"review_requested","pull_request":{"number":1,"title":"t"},"repository":{"full_name":"r"},"requested_team":{"name":"core"}}'
Body_review_requested_team ==
  <<123, 34, 97, 99, 116, 105, 111, 110, 34, 58, 34, 114, 101, 118, 105,
    101, 119, 95, 114, 101, 113, 117, 101, 115, 116, 101, 100, 34, 44, 34,
    112, 117, 108, 108, 95, 114, 101, 113, 117, 101, 115, 116, 34, 58, 123,
    34, 110, 117, 109, 98, 101, 114, 34, 58, 49, 44, 34, 116, 105, 116,
    108, 101, 34, 58, 34, 116, 34, 125, 44, 34, 114, 101, 112, 111, 115,
    105, 116, 111, 114, 121, 34, 58, 123, 34, 102, 117, 108, 108, 95, 110,
    97, 109, 101, 34, 58, 34, 114, 34, 125, 44, 34, 114, 101, 113, 117,
    101, 115, 116, 101, 100, 95, 116, 101, 97, 109, 34, 58, 123, 34, 110,
    97, 109, 101, 34, 58, 34, 99, 111, 114, 101, 34, 125, 125>>

\* '{"action": "Opened"}'
Body_Opened_capital ==
  <<123, 34, 97, 99, 116, 105, 111, 110, 34, 58, 32, 34, 79, 112, 101, 110,
    101, 100, 34, 125>>

\* '{"action":"reopened","action":"edited"}'
Body_reopened ==
  <<123, 34, 97, 99, 116, 105, 111, 110, 34, 58, 34, 114, 101, 111, 112,
    101, 110, 101, 100, 34, 44, 34, 97, 99, 116, 105, 111, 110, 34, 58, 34,
    101, 100, 105, 116, 101, 100, 34, 125>>

\* '{}'
Body_empty_object ==
  <<123, 125>>

\* '["opened"]'
Body_array ==
  <<91, 34, 111, 112, 101, 110, 101, 100, 34, 93>>

\* ' {"zen":"Keep it logically awesome.","hook_id":-1.5e3}\n'
Body_zen ==
  <<32, 123, 34, 122, 101, 110, 34, 58, 34, 75, 101, 101, 112, 32, 105,
    116, 32, 108, 111, 103, 105, 99, 97, 108, 108, 121, 32, 97, 119, 101,
    115, 111, 109, 101, 46, 34, 44, 34, 104, 111, 111, 107, 95, 105, 100,
    34, 58, 45, 49, 46, 53, 101, 51, 125, 10>>

\* ''
Body_empty ==
  <<>>

\* '{"action":"opened",}'
Body_truncated ==
  <<123, 34, 97, 99, 116, 105, 111, 110, 34, 58, 34, 111, 112, 101, 110,
    101, 100, 34, 44, 125>>

\* '{"action":"\xff"}'
Body_not_utf8 ==
  <<123, 34, 97, 99, 116, 105, 111, 110, 34, 58, 34, 255, 34, 125>>

\* An integer of 4301 digits: b'1111...1'
Body_long_integer == [i \in 1..(IntMaxStrDigits + 1) |-> 49] \o <<>>

\* b'{"action":"review_requested","pull_request":{"number":1,"title":"t"},"repository":{"full_name":"r"},"requested_reviewer":1e-999,"requested_team":2.5e-324}'
Body_review_requested_tiny ==
  <<
    123, 34, 97, 99, 116, 105, 111, 110, 34, 58, 34, 114, 101, 118, 105,
    101, 119, 95, 114, 101, 113, 117, 101, 115, 116, 101, 100, 34, 44, 34,
    112, 117, 108, 108, 95, 114, 101, 113, 117, 101, 115, 116, 34, 58, 123,
    34, 110, 117, 109, 98, 101, 114, 34, 58, 49, 44, 34, 116, 105, 116, 108,
    101, 34, 58, 34, 116, 34, 125, 44, 34, 114, 101, 112, 111, 115, 105,
    116, 111, 114, 121, 34, 58, 123, 34, 102, 117, 108, 108, 95, 110, 97,
    109, 101, 34, 58, 34, 114, 34, 125, 44, 34, 114, 101, 113, 117, 101,
    115, 116, 101, 100, 95, 114, 101, 118, 105, 101, 119, 101, 114, 34, 58,
    49, 101, 45, 57, 57, 57, 44, 34, 114, 101, 113, 117, 101, 115, 116, 101,
    100, 95, 116, 101, 97, 109, 34, 58, 50, 46, 53, 101, 45, 51, 50, 52, 125
  >>

Payloads ==
  {Body_opened,
   Body_closed_unmerged,
   Body_closed_merged,
   Body_merged,
   Body_review_requested,
   Body_submitted,
   Body_synchronize,
   Body_opened_bare,
   Body_review_requested_team,
   Body_Opened_capital,
   Body_reopened,
   Body_empty_object,
   Body_array,
   Body_zen,
   Body_empty,
   Body_truncated,
   Body_not_utf8,
   Body_long_integer,
   Body_review_requested_tiny}


(***************************************************************************)
(* The configured secrets and the deliveries the model draws from.         *)
(***************************************************************************)
\* WEBHOOK_SECRET set to the empty string.
\* 'your_webhook_secret_here', the default of config.py.
Secret_default ==
  <<121, 111, 117, 114, 95, 119, 101, 98, 104, 111, 111, 107, 95, 115, 101,
    99, 114, 101, 116, 95, 104, 101, 114, 101>>

\* 'clé'
Secret_accented == <<99, 108, 233>>

\* '\udcff': how os.getenv presents the byte 0xff of an environment value.
Secret_undecodable == <<56575>>

\* The secrets the listener is configured with; '' is the empty secret.
Secrets == {<<>>, Secret_default, Secret_accented, Secret_undecodable}

\* hmac.new(...).hexdigest() for every signer's key and every body, computed
\* once.
HmacTable ==
  {<<key, p, hexdigest(hmac_digest(key, p))>> :
     key \in {str_encode(s).ret : s \in Secrets \ {Secret_undecodable}}, p \in Payloads}

(***************************************************************************)
(* verify_webhook_signature                                                *)
(***************************************************************************)
\* hmac.compare_digest on two str: TypeError unless both are ASCII.
compare_digest(a, b) ==
  IF \E i \in 1..Len(a) : a[i] > 127 THEN Raise("TypeError")
  ELSE IF \E i \in 1..Len(b) : b[i] > 127 THEN Raise("TypeError")
  ELSE Return(a = b)

\* hmac.new(key, msg, hashlib.sha256).hexdigest(), read from HmacTable for
\* the keys and messages computed there.
hmac_hexdigest(key, msg) ==
  LET hits == {e \in HmacTable : e[1] = key /\ e[2] = msg}
  IN  IF hits = {} THEN hexdigest(hmac_digest(key, msg))
      ELSE (CHOOSE e \in hits : TRUE)[3]

\* SignatureMatches with the prefix cut one character short (signature[6:]),
\* the variant that property C8 is measured against.
SignatureMatches_slice6(body, sig, key, level) ==
  IF key.exc # ""
    THEN IF level + 1 <= RecursionLimit THEN key ELSE Raise("RecursionError")
  ELSE IF level + HmacFrames > RecursionLimit THEN Raise("RecursionError")
  ELSE compare_digest(SubSeq(sig, 7, Len(sig)), hmac_hexdigest(key.ret, body))

\* Lines 47-57, with key the encoded secret and level the frames in use,
\* that of verify_webhook_signature among them.  UnicodeEncodeError takes an
\* entry of the recursion count to be built, hmac.new takes HmacFrames.
SignatureMatches(body, sig, key, level) ==
  IF key.exc # ""
    THEN IF level + 1 <= RecursionLimit THEN key ELSE Raise("RecursionError")
  ELSE IF level + HmacFrames > RecursionLimit THEN Raise("RecursionError")
  ELSE compare_digest(SubSeq(sig, 8, Len(sig)), hmac_hexdigest(key.ret, body))

\* verify_webhook_signature without the test of the secret on line 38, the
\* variant that property C7 is measured against.
verify_without_secret_check(body, sig, secret, depth) ==
  IF depth + 1 > RecursionLimit THEN Raise("RecursionError")
  ELSE IF sig.t = "None" \/ sig.v = <<>>
    THEN Within(depth + 1, LogFrames, Return(FALSE))
  ELSE IF ~Matches(sig.v, 1, S_sha256_prefix)
    THEN Within(depth + 1, LogFrames, Return(FALSE))
  ELSE SignatureMatches(body, sig.v, str_encode(secret), depth + 1)

\* verify_webhook_signature, called with depth frames in use; its own frame
\* is one more.  Lines 39 and 44 write to the log before they return.
verify_webhook_signature(body, sig, secret, depth) ==
  IF depth + 1 > RecursionLimit THEN Raise("RecursionError")
  ELSE IF sig.t = "None" \/ sig.v = <<>> \/ secret = <<>>
    THEN Within(depth + 1, LogFrames, Return(FALSE))
  ELSE IF ~Matches(sig.v, 1, S_sha256_prefix)
    THEN Within(depth + 1, LogFrames, Return(FALSE))
  ELSE SignatureMatches(body, sig.v, str_encode(secret), depth + 1)

(***************************************************************************)
(* The handlers.  Each returns the name of the exception it raises, or "" *)
(* when it runs to its end; what it writes to the log is not kept.  A     *)
(* handler is called with depth frames in use and runs one frame higher;  *)
(* each of its lines formats the values of its f-string, in their order,  *)
(* and then calls the logger.                                              *)
(***************************************************************************)
\* The exception of the first call, in program order, that raises.
FirstExc(calls) ==
  LET bad == {i \in 1..Len(calls) : calls[i].exc # ""}
  IN  IF bad = {} THEN "" ELSE calls[Least(bad)].exc

handle_pull_request_opened(data, depth) ==
  LET pr     == Subscript(data, S_pull_request)
      repo   == Subscript(data, S_repository)
      sender == Subscript(data, S_sender)
      number == Subscript(pr.ret, S_number)
      title  == Subscript(pr.ret, S_title)
      full   == Subscript(repo.ret, S_full_name)
      login  == Subscript(sender.ret, S_login)
      last   == Subscript(pr.ret, S_html_url)
  IN  FirstExc(<<Within(depth, 1, Return(None)),
                 pr,
                 repo,
                 sender,
                 Within(depth + 1, FormatNeed(number.ret), number),
                 Within(depth + 1, FormatNeed(title.ret), title),
                 Within(depth + 1, LogFrames, Return(None)),
                 Within(depth + 1, FormatNeed(full.ret), full),
                 Within(depth + 1, LogFrames, Return(None)),
                 Within(depth + 1, FormatNeed(login.ret), login),
                 Within(depth + 1, LogFrames, Return(None)),
                 Within(depth + 1, FormatNeed(last.ret), last),
                 Within(depth + 1, LogFrames, Return(None))>>)

handle_pull_request_closed(data, depth) ==
  LET pr     == Subscript(data, S_pull_request)
      repo   == Subscript(data, S_repository)
      sender == Subscript(data, S_sender)
      number == Subscript(pr.ret, S_number)
      title  == Subscript(pr.ret, S_title)
      full   == Subscript(repo.ret, S_full_name)
      login  == Subscript(sender.ret, S_login)
      last   == Subscript(pr.ret, S_merged)
  IN  FirstExc(<<Within(depth, 1, Return(None)),
                 pr,
                 repo,
                 sender,
                 Within(depth + 1, FormatNeed(number.ret), number),
                 Within(depth + 1, FormatNeed(title.ret), title),
                 Within(depth + 1, LogFrames, Return(None)),
                 Within(depth + 1, FormatNeed(full.ret), full),
                 Within(depth + 1, LogFrames, Return(None)),
                 Within(depth + 1, FormatNeed(login.ret), login),
                 Within(depth + 1, LogFrames, Return(None)),
                 Within(depth + 1, FormatNeed(last.ret), last),
                 Within(depth + 1, LogFrames, Return(None))>>)

handle_pull_request_merged(data, depth) ==
  LET pr     == Subscript(data, S_pull_request)
      repo   == Subscript(data, S_repository)
      sender == Subscript(data, S_sender)
      number == Subscript(pr.ret, S_number)
      title  == Subscript(pr.ret, S_title)
      full   == Subscript(repo.ret, S_full_name)
      login  == Subscript(sender.ret, S_login)
      last   == Subscript(pr.ret, S_merge_commit_sha)
  IN  FirstExc(<<Within(depth, 1, Return(None)),
                 pr,
                 repo,
                 sender,
                 Within(depth + 1, FormatNeed(number.ret), number),
                 Within(depth + 1, FormatNeed(title.ret), title),
                 Within(depth + 1, LogFrames, Return(None)),
                 Within(depth + 1, FormatNeed(full.ret), full),
                 Within(depth + 1, LogFrames, Return(None)),
                 Within(depth + 1, FormatNeed(login.ret), login),
                 Within(depth + 1, LogFrames, Return(None)),
                 Within(depth + 1, FormatNeed(last.ret), last),
                 Within(depth + 1, LogFrames, Return(None))>>)

handle_pull_request_review_requested(data, depth) ==
  LET pr       == Subscript(data, S_pull_request)
      repo     == Subscript(data, S_repository)
      reviewer == dict_get(data, S_requested_reviewer)
      team     == dict_get(data, S_requested_team)
      number   == Subscript(pr.ret, S_number)
      title    == Subscript(pr.ret, S_title)
      full     == Subscript(repo.ret, S_full_name)
      login    == Subscript(reviewer.ret, S_login)
      name     == Subscript(team.ret, S_name)
  IN  FirstExc(<<Within(depth, 1, Return(None)),
                 pr,
                 repo,
                 reviewer,
                 team,
                 Within(depth + 1, FormatNeed(number.ret), number),
                 Within(depth + 1, FormatNeed(title.ret), title),
                 Within(depth + 1, LogFrames, Return(None)),
                 Within(depth + 1, FormatNeed(full.ret), full),
                 Within(depth + 1, LogFrames, Return(None)),
                 IF Truthy(reviewer.ret)
                   THEN Within(depth + 1, LogFrames,
                               Within(depth + 1, FormatNeed(login.ret), login))
                 ELSE Return(None),
                 IF Truthy(team.ret)
                   THEN Within(depth + 1, LogFrames,
                               Within(depth + 1, FormatNeed(name.ret), name))
                 ELSE Return(None)>>)

handle_pull_request_review_submitted(data, depth) ==
  LET pr     == Subscript(data, S_pull_request)
      repo   == Subscript(data, S_repository)
      review == Subscript(data, S_review)
      sender == Subscript(data, S_sender)
      number == Subscript(pr.ret, S_number)
      title  == Subscript(pr.ret, S_title)
      full   == Subscript(repo.ret, S_full_name)
      login  == Subscript(sender.ret, S_login)
      state  == Subscript(review.ret, S_state)
      body   == dict_get(review.ret, S_body)
      text   == Subscript(review.ret, S_body)
  IN  FirstExc(<<Within(depth, 1, Return(None)),
                 pr,
                 repo,
                 review,
                 sender,
                 Within(depth + 1, FormatNeed(number.ret), number),
                 Within(depth + 1, FormatNeed(title.ret), title),
                 Within(depth + 1, LogFrames, Return(None)),
                 Within(depth + 1, FormatNeed(full.ret), full),
                 Within(depth + 1, LogFrames, Return(None)),
                 Within(depth + 1, FormatNeed(login.ret), login),
                 Within(depth + 1, LogFrames, Return(None)),
                 Within(depth + 1, FormatNeed(state.ret), state),
                 Within(depth + 1, LogFrames, Return(None)),
                 body,
                 IF Truthy(body.ret)
                   THEN Within(depth + 1, LogFrames,
                               Within(depth + 1, FormatNeed(text.ret), text))
                 ELSE Return(None)>>)

handle_pull_request_synchronize(data, depth) ==
  LET pr     == Subscript(data, S_pull_request)
      repo   == Subscript(data, S_repository)
      sender == Subscript(data, S_sender)
      number == Subscript(pr.ret, S_number)
      title  == Subscript(pr.ret, S_title)
      full   == Subscript(repo.ret, S_full_name)
      login  == Subscript(sender.ret, S_login)
      head   == Subscript(pr.ret, S_head)
      sha    == Subscript(head.ret, S_sha)
  IN  FirstExc(<<Within(depth, 1, Return(None)),
                 pr,
                 repo,
                 sender,
                 Within(depth + 1, FormatNeed(number.ret), number),
                 Within(depth + 1, FormatNeed(title.ret), title),
                 Within(depth + 1, LogFrames, Return(None)),
                 Within(depth + 1, FormatNeed(full.ret), full),
                 Within(depth + 1, LogFrames, Return(None)),
                 Within(depth + 1, FormatNeed(login.ret), login),
                 Within(depth + 1, LogFrames, Return(None)),
                 head,
                 Within(depth + 1, FormatNeed(sha.ret), sha),
                 Within(depth + 1, LogFrames, Return(None))>>)

(***************************************************************************)
(* webhook: POST /webhook                                                  *)
(***************************************************************************)
\* str.lower() on ASCII letters.
LowerCase(s) ==
  [i \in 1..Len(s) |-> IF s[i] >= 65 /\ s[i] <= 90 THEN s[i] + 32 ELSE s[i]]
  \o <<>>

\* RouteTable comparing action.lower(), the variant that property C5 is
\* measured against.
RouteTable_caseless(action) ==
  IF action.t # "str" THEN ""
  ELSE IF LowerCase(action.v) = S_opened THEN "handle_pull_request_opened"
  ELSE IF LowerCase(action.v) = S_closed THEN "handle_pull_request_closed"
  ELSE IF LowerCase(action.v) = S_merged THEN "handle_pull_request_merged"
  ELSE IF LowerCase(action.v) = S_review_requested
    THEN "handle_pull_request_review_requested"
  ELSE IF LowerCase(action.v) = S_submitted
    THEN "handle_pull_request_review_submitted"
  ELSE IF LowerCase(action.v) = S_synchronize
    THEN "handle_pull_request_synchronize"
  ELSE ""

\* The if/elif chain on action: the handler an action is routed to, or "".
RouteTable(action) ==
  IF EqStr(action, S_opened) THEN "handle_pull_request_opened"
  ELSE IF EqStr(action, S_closed) THEN "handle_pull_request_closed"
  ELSE IF EqStr(action, S_merged) THEN "handle_pull_request_merged"
  ELSE IF EqStr(action, S_review_requested)
    THEN "handle_pull_request_review_requested"
  ELSE IF EqStr(action, S_submitted)
    THEN "handle_pull_request_review_submitted"
  ELSE IF EqStr(action, S_synchronize) THEN "handle_pull_request_synchronize"
  ELSE ""

\* The call of the handler named h.
CallHandler(h, data, depth) ==
  IF h = "handle_pull_request_opened"
    THEN handle_pull_request_opened(data, depth)
  ELSE IF h = "handle_pull_request_closed"
    THEN handle_pull_request_closed(data, depth)
  ELSE IF h = "handle_pull_request_merged"
    THEN handle_pull_request_merged(data, depth)
  ELSE IF h = "handle_pull_request_review_requested"
    THEN handle_pull_request_review_requested(data, depth)
  ELSE IF h = "handle_pull_request_review_submitted"
    THEN handle_pull_request_review_submitted(data, depth)
  ELSE handle_pull_request_synchronize(data, depth)

InvalidSignature == <<401, "error", "Invalid signature">>

InvalidJSON == <<400, "error", "Invalid JSON">>

InternalServerError == <<500, "error", "Internal server error">>

Pong == <<200, "message", "Pong">>

ReceivedSuccessfully == <<200, "message", "Webhook received successfully">>

\* What one run of the body of the try block has done when it is left:
\* verified is the outcome of the verification ("true", "false", "raised",
\* "" when it was not reached),
\* parsed whether line 171 was reached, invoked the handler calls made, exc
\* the exception that leaves the block ("" for none) and ret the response a
\* return statement gives.
Outcome(ver, par, inv, e, r) ==
  [verified |-> ver, parsed |-> par, invoked |-> inv, exc |-> e, ret |-> r]

\* Lines 183-193 and 205: the call of handler h, which is made when a frame
\* is left for it.
Dispatch(data, h, depth) ==
  Outcome("true", TRUE,
          IF depth + 1 <= RecursionLimit THEN <<<<h, data>>>> ELSE <<>>,
          CallHandler(h, data, depth), ReceivedSuccessfully)

\* Lines 179-195 and 205, with action the outcome of line 178: line 179
\* formats the action and writes it to the log, as line 195 does again.
RouteAction(data, action, depth) ==
  IF Within(depth, LogFrames, Within(depth, FormatNeed(action.ret), action)).exc
       # ""
    THEN Outcome("true", TRUE, <<>>,
                 Within(depth, LogFrames,
                        Within(depth, FormatNeed(action.ret), action)).exc,
                 <<>>)
  ELSE IF RouteTable(action.ret) = ""
    THEN Outcome("true", TRUE, <<>>, "", ReceivedSuccessfully)
  ELSE Dispatch(data, RouteTable(action.ret), depth)

\* RouteEvent reading data.get('action') before the test of the event type,
\* the variant that property C4 is measured against.
RouteEvent_action_first(event, data, depth) ==
  IF data.exc # "" THEN Outcome("true", TRUE, <<>>, data.exc, <<>>)
  ELSE IF dict_get(data.ret, S_action).exc # ""
    THEN Outcome("true", TRUE, <<>>, dict_get(data.ret, S_action).exc, <<>>)
  ELSE IF EqStr(event, S_pull_request)
    THEN RouteAction(data.ret, dict_get(data.ret, S_action), depth)
  ELSE IF depth + LogFrames > RecursionLimit
    THEN Outcome("true", TRUE, <<>>, "RecursionError", <<>>)
  ELSE IF EqStr(event, S_ping) THEN Outcome("true", TRUE, <<>>, "", Pong)
  ELSE Outcome("true", TRUE, <<>>, "", ReceivedSuccessfully)

\* Lines 174-205, with data the outcome of json.loads.  Lines 199 and 203
\* write to the log before the response is returned.
RouteEvent(event, data, depth) ==
  IF data.exc # "" THEN Outcome("true", TRUE, <<>>, data.exc, <<>>)
  ELSE IF EqStr(event, S_pull_request)
    THEN RouteAction(data.ret, dict_get(data.ret, S_action), depth)
  ELSE IF depth + LogFrames > RecursionLimit
    THEN Outcome("true", TRUE, <<>>, "RecursionError", <<>>)
  ELSE IF EqStr(event, S_ping) THEN Outcome("true", TRUE, <<>>, "", Pong)
  ELSE Outcome("true", TRUE, <<>>, "", ReceivedSuccessfully)

\* Line 171 on, with text the decoded body and depth the frames in use in
\* webhook().
ParseText(event, text, depth) ==
  IF text.exc # "" THEN Outcome("true", TRUE, <<>>, text.exc, <<>>)
  ELSE RouteEvent(event, json_loads(text.ret, depth), depth)

\* Lines 166 on, with v the outcome of the verification.  Line 167 writes
\* to the log before the response is returned.
AfterVerify(body, event, v, depth) ==
  IF v.exc # "" THEN Outcome("raised", FALSE, <<>>, v.exc, <<>>)
  ELSE IF ~v.ret
    THEN Outcome("false", FALSE, <<>>,
                 Within(depth, LogFrames, Return(None)).exc, InvalidSignature)
  ELSE ParseText(event, bytes_decode(body), depth)

\* The body of the try block, webhook() running with depth frames in use,
\* its own among them: request.get_data() on line 160 is a call.
TryBlock(body, sig, event, secret, depth) ==
  IF depth + 1 > RecursionLimit
    THEN Outcome("", FALSE, <<>>, "RecursionError", <<>>)
  ELSE AfterVerify(body, event,
                   verify_webhook_signature(body, sig, secret, depth), depth)

\* ExceptClauses answering with str(e), the variant that property C10 is
\* measured against.
ExceptClauses_detail(exc) ==
  IF exc = "JSONDecodeError" THEN InvalidJSON ELSE <<500, "error", exc>>

\* The except clauses: JSONDecodeError answers 400 and every other Exception
\* 500.
ExceptClauses(exc) ==
  IF exc = "JSONDecodeError" THEN InvalidJSON ELSE InternalServerError

\* The responses of a request whose try block ran as run, webhook()
\* running with depth frames in use.  An except clause writes to the log
\* (lines 208 and 212) before it returns its response; when the logger
\* raises there, the exception leaves webhook() and exc names it.
Respond(run, depth) ==
  [verified  |-> run.verified,
   parsed    |-> run.parsed,
   invoked   |-> run.invoked,
   responses |-> IF run.exc = "" THEN <<run.ret>>
                 ELSE IF depth + LogFrames <= RecursionLimit
                   THEN <<ExceptClauses(run.exc)>>
                 ELSE <<>>,
   exc       |-> IF run.exc = "" \/ depth + LogFrames <= RecursionLimit
                   THEN "" ELSE "RecursionError"]

\* webhook(), running with depth frames in use, its own among them: the run
\* of the try block and the responses the view returns.
webhook_view(body, sig, event, secret, depth) ==
  Respond(TryBlock(body, sig, event, secret, depth), depth)

\* The X-Hub-Signature-256 value GitHub sends for a body signed with secret.
Signed(secret, body) ==
  PyStr(S_sha256_prefix \o hmac_hexdigest(str_encode(secret).ret, body))

\* The headers derived from digest, the hex digest of the body under the
\* default secret: the digest without the prefix and the digest in upper
\* case.
Malformed(digest) ==
  {PyStr(digest),
   PyStr(S_sha256_prefix
         \o [i \in 1..Len(digest) |->
               IF digest[i] >= 97 /\ digest[i] <= 102 THEN digest[i] - 32
               ELSE digest[i]])}

\* The signature headers a delivery of body can carry: none, '', the bare
\* prefix, a digest without the prefix, an upper-case digest, 'sha256=é',
\* the signature of another body, and the signature under each secret.
Signatures(body) ==
  {None, PyStr(<<>>), PyStr(S_sha256_prefix), PyStr(S_sha256_prefix \o <<233>>)}
  \cup Malformed(hmac_hexdigest(str_encode(Secret_default).ret, body))
  \cup {Signed(s, b) : s \in Secrets \ {Secret_undecodable},
                       b \in {body, Body_opened}}

\* The X-GitHub-Event values: none, 'pull_request', 'ping', 'push'.
EventTypes ==
  {None, PyStr(S_pull_request), PyStr(S_ping), PyStr(<<112, 117, 115, 104>>)}

(***************************************************************************)
(* The server: one request at a time is followed from its arrival to its  *)
(* response; nothing of it is kept once the response is sent.             *)
(***************************************************************************)
\* The frames of the interpreter in use while webhook() runs, its own among
\* them: the view called from a script, and called by a server.  A view that
\* is called with fewer than LogFrames frames left cannot answer.
StackDepths == {2, 24}

Init ==
  /\ WEBHOOK_SECRET \in Secrets
  /\ frames \in StackDepths
  /\ pc = "idle"
  /\ route = ""
  /\ payload = <<>>
  /\ signature = None
  /\ event_type = None
  /\ verified = ""
  /\ parsed = FALSE
  /\ invoked = <<>>
  /\ responses = <<>>
  /\ served = 0

\* POST /webhook
webhook ==
  /\ pc = "idle"
  /\ served < MaxRequests
  /\ \E body \in Payloads, event \in EventTypes :
       \E sig \in Signatures(body) :
         \E r \in {webhook_view(body, sig, event, WEBHOOK_SECRET, frames)} :
           /\ payload' = body
           /\ signature' = sig
           /\ event_type' = event
           /\ verified' = r.verified
           /\ parsed' = r.parsed
           /\ invoked' = r.invoked
           /\ responses' = r.responses
  /\ route' = "/webhook"
  /\ pc' = "responded"
  /\ served' = served + 1
  /\ UNCHANGED <<WEBHOOK_SECRET, frames>>

\* GET /health
health_check ==
  /\ pc = "idle"
  /\ served < MaxRequests
  /\ route' = "/health"
  /\ responses' = <<<<200, "status", "healthy">>>>
  /\ pc' = "responded"
  /\ served' = served + 1
  /\ UNCHANGED <<WEBHOOK_SECRET, frames, payload, signature, event_type,
                 verified, parsed, invoked>>

\* GET /: the status and the keys of the body, each followed by its value.
home ==
  /\ pc = "idle"
  /\ served < MaxRequests
  /\ route' = "/"
  /\ responses' = <<<<200,
                       "message", "GitHub Webhook Listener",
                       "endpoints", <<<<"webhook", "/webhook">>,
                                      <<"health", "/health">>>>,
                       "supported_events", <<"pull_request", "ping">>>>>>
  /\ pc' = "responded"
  /\ served' = served + 1
  /\ UNCHANGED <<WEBHOOK_SECRET, frames, payload, signature, event_type,
                 verified, parsed, invoked>>

\* The server turns to the next request; the request and what was decoded
\* from it are gone.
next_request ==
  /\ pc = "responded"
  /\ pc' = "idle"
  /\ route' = ""
  /\ payload' = <<>>
  /\ signature' = None
  /\ event_type' = None
  /\ verified' = ""
  /\ parsed' = FALSE
  /\ invoked' = <<>>
  /\ responses' = <<>>
  /\ UNCHANGED <<WEBHOOK_SECRET, frames, served>>

Next == webhook \/ health_check \/ home \/ next_request

Spec == Init /\ [][Next]_vars

(***************************************************************************)
(* The properties of POST /webhook.                                        *)
(***************************************************************************)
\* A POST /webhook request has been answered.
Answered == pc = "responded" /\ route = "/webhook"

\* The body is JSON the decoder accepts: the bytes decode as UTF-8 and
\* json.loads returns a value for the text (its grammar is met, no integer
\* has more than IntMaxStrDigits digits and the nesting fits the stack).
ValidJSON(b) ==
  bytes_decode(b).exc = "" /\ json_loads(bytes_decode(b).ret, frames).exc = ""

\* The body is not JSON: the bytes do not decode as UTF-8, or the text does
\* not meet the grammar.
NotJSON(b) ==
  \/ bytes_decode(b).exc # ""
  \/ json_loads(bytes_decode(b).ret, frames).exc = "JSONDecodeError"

\* The envelope a valid JSON body decodes to.
Envelope(b) == json_loads(bytes_decode(b).ret, frames).ret

\* The action of an envelope, None when it has none.
ActionOf(data) ==
  IF data.t = "dict" THEN dict_get(data, S_action).ret ELSE None

\* The route table as the specification gives it: action and handler.
Bindings ==
  {<<S_opened, "handle_pull_request_opened">>,
   <<S_closed, "handle_pull_request_closed">>,
   <<S_merged, "handle_pull_request_merged">>,
   <<S_review_requested, "handle_pull_request_review_requested">>,
   <<S_submitted, "handle_pull_request_review_submitted">>,
   <<S_synchronize, "handle_pull_request_synchronize">>}

\* The handlers bound to an action: one for an action of the table, none
\* for any other value.
BoundTo(action) == {b[2] : b \in {c \in Bindings : action = PyStr(c[1])}}

\* The signature header begins with 'sha256='.
HasPrefix(sig) ==
  sig.t = "str" /\ Len(sig.v) >= 7 /\ SubSeq(sig.v, 1, 7) = S_sha256_prefix

\* The five responses of the endpoint.
FixedResponses ==
  {InvalidSignature, InvalidJSON, InternalServerError, Pong,
   ReceivedSuccessfully}

\* C1: a delivery whose signature verification does not succeed is answered
\* 401 {"error": "Invalid signature"}, its body is not parsed and no handler
\* is invoked.
C1_UnverifiedIsRejected ==
  (Answered /\ verified # "true") =>
    (responses = <<InvalidSignature>> /\ ~parsed /\ invoked = <<>>)

\* C2: whenever a verified pull_request delivery has invoked a handler, the
\* response is 200 {"message": "Webhook received successfully"}, whether or
\* not the handler raised.
C2_HandlerErrorContained ==
  (Answered /\ verified = "true" /\ invoked # <<>>) =>
    responses = <<ReceivedSuccessfully>>

\* C3: a verified delivery whose body is not valid JSON (undecodable bytes
\* or unparsable text) is answered 400 {"error": "Invalid JSON"} and invokes
\* no handler, whatever its event type.
C3_InvalidJSONIsRejected ==
  (Answered /\ verified = "true" /\ NotJSON(payload)) =>
    (responses = <<InvalidJSON>> /\ invoked = <<>>)

\* C4 as claimed: a verified ping delivery is answered 200 {"message":
\* "Pong"} and invokes no handler, for every body.
C4_PingAlwaysPong ==
  (Answered /\ verified = "true" /\ event_type = PyStr(S_ping)) =>
    (responses = <<Pong>> /\ invoked = <<>>)

\* C4 as amended: a verified ping delivery whose body the JSON decoder
\* accepts (a value of any type) is answered 200 {"message": "Pong"} and
\* invokes no handler.
C4_PingPongOnValidJSON ==
  (Answered /\ verified = "true" /\ event_type = PyStr(S_ping)
     /\ ValidJSON(payload)) =>
    (responses = <<Pong>> /\ invoked = <<>>)

\* A verified ping whose body is the JSON array ["opened"] was answered Pong.
C4_Witness ==
  /\ Answered
  /\ verified = "true"
  /\ event_type = PyStr(S_ping)
  /\ payload = Body_array
  /\ responses = <<Pong>>

\* C5: at most one handler is invoked per request; a verified pull_request
\* delivery whose body was decoded to an envelope invokes exactly the
\* handler bound to its action by exact match, once, with the decoded
\* envelope as it was parsed, and no handler when the action is not in the
\* table; action closed invokes the
\* closed-handler whatever the merged flag; other events invoke none.
C5_ExactRouting ==
  /\ Len(invoked) <= 1
  /\ (Answered /\ verified = "true" /\ ValidJSON(payload)) =>
       /\ event_type # PyStr(S_pull_request) => invoked = <<>>
       /\ event_type = PyStr(S_pull_request) =>
            /\ {invoked[i][1] : i \in 1..Len(invoked)}
                 = BoundTo(ActionOf(Envelope(payload)))
            /\ Len(invoked) = Cardinality(BoundTo(ActionOf(Envelope(payload))))
            /\ \A i \in 1..Len(invoked) : invoked[i][2] = Envelope(payload)
  /\ (Answered /\ verified = "true" /\ event_type = PyStr(S_pull_request)
        /\ payload \in {Body_closed_unmerged, Body_closed_merged}) =>
       /\ Len(invoked) = 1
       /\ invoked[1][1] = "handle_pull_request_closed"

\* A closed delivery whose merged flag is true invoked the closed-handler
\* with its envelope.
C5_Witness ==
  /\ Answered
  /\ payload = Body_closed_merged
  /\ Subscript(Subscript(Envelope(payload), S_pull_request).ret, S_merged).ret
       = PyBool(TRUE)
  /\ invoked = <<<<"handle_pull_request_closed", Envelope(payload)>>>>

\* C6: a verified delivery with valid JSON whose event type is pull_request
\* with an action outside the route table (or no action), or whose event
\* type is neither pull_request nor ping (or absent), invokes no handler and
\* is answered 200 {"message": "Webhook received successfully"}.
C6_UnmatchedRoutingSucceeds ==
  (Answered /\ verified = "true" /\ ValidJSON(payload)
     /\ \/ event_type \notin {PyStr(S_pull_request), PyStr(S_ping)}
        \/ /\ event_type = PyStr(S_pull_request)
           /\ BoundTo(ActionOf(Envelope(payload))) = {}) =>
    (responses = <<ReceivedSuccessfully>> /\ invoked = <<>>)

\* C7: verify_webhook_signature returns False when the signature header is
\* absent, empty or lacks the prefix sha256=, whatever the payload and the
\* secret, and when the secret is empty, whatever the payload and the
\* signature.
C7_RejectsUnsignedAndUnkeyed ==
  (Answered /\ (signature = None \/ signature = PyStr(<<>>)
                  \/ ~HasPrefix(signature) \/ WEBHOOK_SECRET = <<>>)) =>
    /\ verified = "false"
    /\ verify_webhook_signature(payload, signature, WEBHOOK_SECRET, frames)
         = Return(FALSE)

\* With the empty secret, the signature computed under the empty key was
\* refused.
C7_Witness ==
  /\ Answered
  /\ WEBHOOK_SECRET = <<>>
  /\ signature = Signed(<<>>, payload)
  /\ verified = "false"

\* C8 as claimed: for every payload and every secret that has a UTF-8
\* encoding, the signature "sha256=" + hex(HMAC-SHA256(secret, payload)) is
\* verified.
C8_OwnSignatureVerifies ==
  (Answered /\ str_encode(WEBHOOK_SECRET).exc = ""
     /\ signature = Signed(WEBHOOK_SECRET, payload)) =>
    verified = "true"

\* C8 as amended: the same for every non-empty secret.
C8_OwnSignatureVerifiesNonEmptySecret ==
  (Answered /\ WEBHOOK_SECRET # <<>> /\ str_encode(WEBHOOK_SECRET).exc = ""
     /\ signature = Signed(WEBHOOK_SECRET, payload)) =>
    verified = "true"

\* Under the secret 'clé', a body signed with it was verified.
C8_Witness ==
  /\ Answered
  /\ WEBHOOK_SECRET = Secret_accented
  /\ payload = Body_not_utf8
  /\ signature = Signed(Secret_accented, payload)
  /\ verified = "true"

\* C9: verify_webhook_signature returns a boolean for every payload,
\* signature header and secret, so a request that is not verified is
\* answered 401 and never 500.
C9_VerifyNeverRaises ==
  Answered =>
    /\ verified \in {"true", "false"}
    /\ verify_webhook_signature(payload, signature, WEBHOOK_SECRET,
                                frames).exc = ""
    /\ verified = "false" <=> responses = <<InvalidSignature>>

\* C10: every POST /webhook request, whatever came before it, is answered
\* with exactly one response, one of the five fixed ones; and between
\* requests nothing of a request is left.
C10_OneFixedResponse ==
  /\ Answered => (Len(responses) = 1 /\ responses[1] \in FixedResponses)
  /\ pc = "idle" =>
       /\ payload = <<>> /\ signature = None /\ event_type = None
       /\ verified = "" /\ ~parsed /\ invoked = <<>> /\ responses = <<>>

\* The second request of a run raised in a handler and was answered 500.
C10_Witness ==
  /\ Answered
  /\ served = MaxRequests
  /\ invoked # <<>>
  /\ responses = <<InternalServerError>>

====
